---- MODULE Spec2Model ----
(***************************************************************************)
(* The in-memory HUD API (src/unnamed/part_000: two builds of the same     *)
(* server): per-source fixed-window rate limiter, header/query signature   *)
(* check, timestamp freshness check, registry upsert (POST /api/register)  *)
(* and bulk lookup (POST /api/scan).                                       *)
(*                                                                         *)
(* A request is first seen by the rate-limiter middleware (Arrive).  The   *)
(* body parser that follows reads the request stream asynchronously, so    *)
(* the route handler runs in a later turn of the event loop (Handle): time *)
(* may pass and other requests may arrive in between.                      *)
(***************************************************************************)
EXTENDS Integers, Sequences, FiniteSets, TLC

VARIABLES
  variant,   \* which build runs: 1 = part_000 lines 1-152, 2 = part_000 lines
             \* 154-270, 3 = server.cjs, 4 = server.js (and part_003), 5 = part_005
  clock,     \* Date.now(), milliseconds
  nreq,      \* requests received so far
  hits,      \* the limiter's Map: source key -> [count, last]
  win,       \* history: per source key, the current window as the spec counts it
  registry,  \* the registry Map: avatar id -> [name, mc, rank, first_seen, last_seen]
  inflight,  \* requests past the limiter whose handler has not run yet
  resp,      \* the response sent last
  probe,     \* the last evaluation of a pure helper (the helpers' own specifications)
  huds,      \* persisted variant: the huds collection, avatar id -> document
  up,        \* persisted variant: the server process is running
  clubs,     \* persisted variant: the clubs collection, a set of documents
  members,   \* persisted variant: the members collection, avatar id -> document
  calls,     \* persisted variant: handlers suspended at an await
  admits     \* history: per observed source key, the arrival times of its
             \* requests admitted in the last 60 s

vars ==
  <<variant, clock, nreq, hits, win, registry, inflight, resp, probe, huds, up, clubs, members,
    calls, admits>>

----------------------------------------------------------------------------
(* Bounds of the exploration *)

MaxReqs == 3
MaxRegReqs == 3
MaxUpsertReqs == 3
MaxRateReqs == 4
MaxBurstReqs == 6
MaxKeyReqs == 4
MaxBudgetReqs == 3
MaxScanReqs == 3
MaxAgeReqs == 3
MaxReadReqs == 3
MaxSigReqs == 1
MaxInputReqs == 2
MaxHudReqs == 3
MaxClubReqs == 3
MaxConcReqs == 3
MaxPending == 2
MaxDrift == 3
MaxInFlight == 1
\* process.env.RATE_PER_MIN as deployed in the explored runs (the default is 120)
RATE_PER_MIN == 2
\* the second in which the server starts
StartS == 1000

----------------------------------------------------------------------------
(* Program constants *)

SHARED_SECRET == "CHANGEME_SECRET"
TS_DRIFT_SEC == 60
WindowMs == 60000
DaySec == 86400
DEFAULT_MC == "MC Grid Wide"
DEFAULT_RANK == "Prospect"
UNKNOWN == "(unknown)"

lookupRankFor(id) == DEFAULT_RANK

----------------------------------------------------------------------------
(* JavaScript values of the JSON body, and the conversions the handlers    *)
(* apply to them                                                           *)

Str(s) == [t |-> "string", s |-> s, n |-> 0]
Num(n) == [t |-> "number", s |-> "", n |-> n]
Undef == [t |-> "undefined", s |-> "", n |-> 0]
JsNull == [t |-> "null", s |-> "", n |-> 0]
Bool(b) == [t |-> "boolean", s |-> "", n |-> IF b THEN 1 ELSE 0]
\* the string of the decimal digits of n
Digits(n) == [t |-> "digits", s |-> "", n |-> n]
\* the number n + 1/2
Half(n) == [t |-> "number", s |-> "half", n |-> n]
\* an object with an own property toString that is not a function, e.g.
\* {"toString": 1}: converting it to a string or a number throws a TypeError
BadObject == [t |-> "object", s |-> "toString", n |-> 0]

Throws(v) == v.t = "object"

\* ToBoolean: undefined, null, false, "" and 0 are falsy
Truthy(v) ==
  CASE v.t = "string" -> v.s # ""
    [] v.t = "number" -> v.n # 0 \/ v.s = "half"
    [] v.t = "boolean" -> v.n = 1
    [] v.t \in {"digits", "object"} -> TRUE
    [] OTHER -> FALSE

\* decimal text of a small natural number
DigitStr(n) ==
  CASE n = 0 -> "0" [] n = 1 -> "1" [] n = 2 -> "2" [] n = 3 -> "3"
    [] n = 4 -> "4" [] n = 5 -> "5" [] n = 6 -> "6" [] n = 7 -> "7"
    [] n = 8 -> "8" [] OTHER -> "9"

\* String(v)
JsString(v) ==
  CASE v.t = "string" -> v.s
    [] v.t \in {"number", "digits"} -> DigitStr(v.n)
    [] v.t = "boolean" -> IF v.n = 1 THEN "true" ELSE "false"
    [] v.t = "null" -> "null"
    [] OTHER -> "undefined"

\* x || '' followed by String(...)
StringOrEmpty(v) == IF Truthy(v) THEN JsString(v) ELSE ""

\* Number(v): [fin, v, half] is the number v + half/2; fin = FALSE stands
\* for NaN
NaN == [fin |-> FALSE, v |-> 0, half |-> 0]
ToNumber(v) ==
  CASE v.t = "number" ->
         [fin |-> TRUE, v |-> v.n, half |-> IF v.s = "half" THEN 1 ELSE 0]
    [] v.t \in {"digits", "boolean"} -> [fin |-> TRUE, v |-> v.n, half |-> 0]
    [] v.t = "null" -> [fin |-> TRUE, v |-> 0, half |-> 0]
    [] v.t = "string" /\ v.s = "" -> [fin |-> TRUE, v |-> 0, half |-> 0]
    [] OTHER -> NaN

Abs(x) == IF x < 0 THEN -x ELSE x

\* Math.floor(ms / 1000)
FloorSec(ms) == ms \div 1000

----------------------------------------------------------------------------
(* Signatures.  The 8-hex-digit digest prefix is modelled by the pair it   *)
(* is computed from: two signature strings are equal exactly when secret   *)
(* and bytes are equal.  The empty tuple is the empty string.              *)

NoSig == <<>>

\* Other spellings of the digits of the same digest carry a third component:
\* how many of the 40 digits are there, whether the letters are upper case,
\* and whether whitespace surrounds them.  The 8 lower-case digits stay the
\* pair itself, so every string has one representation.
Plain == [len |-> 8, upper |-> FALSE, pad |-> FALSE]
ShapeOf(s) == IF Len(s) = 3 THEN s[3] ELSE Plain
HexStr(secret, text, shape) ==
  IF shape = Plain THEN <<secret, text>> ELSE <<secret, text, shape>>
Reshape(s, shape) == IF s = NoSig THEN s ELSE HexStr(s[1], s[2], shape)

\* String.prototype.trim, toLowerCase, toUpperCase and slice(0, 8) on such a
\* string; Padded puts a blank before and after it
Trim(s) == Reshape(s, [ShapeOf(s) EXCEPT !.pad = FALSE])
ToLowerCase(s) == Reshape(s, [ShapeOf(s) EXCEPT !.upper = FALSE])
ToUpperCase(s) == Reshape(s, [ShapeOf(s) EXCEPT !.upper = TRUE])
Slice8(s) == Reshape(s, [ShapeOf(s) EXCEPT !.len = 8])
Padded(s) == Reshape(s, [ShapeOf(s) EXCEPT !.pad = TRUE])

\* crypto.createHash('sha1').update(secret + '|' + text).digest('hex')
sha1(secret, text) == HexStr(secret, text, [len |-> 40, upper |-> FALSE, pad |-> FALSE])

\* ....digest('hex').slice(0,8)
sigSHA1(secret, raw) == Slice8(sha1(secret, raw))

\* mutant: the presented signature is compared as sent
GotSigAsSent(req) == IF req.xsig # NoSig THEN req.xsig ELSE req.qsig

\* ((req.get('X-Sig') || req.query.sig || '') + '').trim().toLowerCase()
GotSig(req) == ToLowerCase(Trim(IF req.xsig # NoSig THEN req.xsig ELSE req.qsig))

\* mutant: the boundary is exclusive
FreshAtStrict(ts, nowS, drift) ==
  ts.fin /\ Abs(2 * (nowS - ts.v) - ts.half) < 2 * drift

\* mutant: the window guard without Math.abs (any claim in the future passes)
FreshAtNoAbs(ts, nowS, drift) ==
  ts.fin /\ 2 * (nowS - ts.v) - ts.half <= 2 * drift

\* Number.isFinite(ts) && Math.abs(now - ts) <= TS_DRIFT_SEC, in half seconds
FreshAt(ts, nowS, drift) ==
  ts.fin /\ Abs(2 * (nowS - ts.v) - ts.half) <= 2 * drift
withinWindow(ts, nowMs) == FreshAt(ts, FloorSec(nowMs), TS_DRIFT_SEC)

----------------------------------------------------------------------------
(* Maps *)

EmptyMap == [k \in {} |-> 0]
Put(m, k, v) == [x \in (DOMAIN m) \cup {k} |-> IF x = k THEN v ELSE m[x]]
Min(a, b) == IF a <= b THEN a ELSE b
Max0(a) == IF a < 0 THEN 0 ELSE a

----------------------------------------------------------------------------
(* Requests.  raw is the body text as received: the JSON value it holds    *)
(* and its spelling; express.json() leaves the text in req.rawBody and the *)
(* parsed value in req.body.                                               *)

JsonText(val, form) == [val |-> val, form |-> form]
JsonParse(raw) == raw.val

Body(id, name, ts, targets) ==
  [avatar_id |-> id, avatar_name |-> name, timestamp |-> ts, targets |-> targets,
   region |-> Undef]
NoTargets == [isArray |-> FALSE, items |-> <<>>]
Targets(items) == [isArray |-> TRUE, items |-> items]
EmptyBody == Body(Undef, Undef, Undef, NoTargets)

\* mutant: the forwarding header is not looked at
SourceKeySocket(req) == IF req.remote # "" THEN req.remote ELSE "unknown"

\* req.headers['x-forwarded-for']?.split(',')[0]?.trim() || req.socket.remoteAddress || 'unknown'
SourceKey(req) ==
  IF req.xff # <<>> /\ Head(req.xff) # "" THEN Head(req.xff)
  ELSE IF req.remote # "" THEN req.remote
  ELSE "unknown"

----------------------------------------------------------------------------
(* Responses *)

NoReq ==
  [n |-> 0, holds |-> FALSE, replayed |-> FALSE, xff |-> <<>>, remote |-> "", route |-> "",
   xsig |-> NoSig, qsig |-> NoSig, raw |-> JsonText(EmptyBody, "")]

NoResp ==
  [n |-> 0, status |-> 0, error |-> "", who |-> "", rank |-> "", results |-> <<>>,
   expected |-> NoSig, at |-> 0, checks |-> <<>>, req |-> NoReq]

Reply(req, status, error, checks) ==
  [n |-> req.n, status |-> status, error |-> error, who |-> "", rank |-> "",
   results |-> <<>>, expected |-> NoSig, at |-> clock, checks |-> checks, req |-> req]

----------------------------------------------------------------------------
(* Rate limiter middleware *)

\* hits.get(ip) || { count: 0, last: now }
Bucket(key, now) ==
  IF key \in DOMAIN hits THEN hits[key] ELSE [count |-> 0, last |-> now]

\* mutant: the window length is taken in the wrong unit (60 ms)
WindowedSeconds(h, now) ==
  IF now - h.last > WindowMs \div 1000 THEN [count |-> 0, last |-> now] ELSE h

\* mutant: the window already ends 60 s after its start
WindowedInclusive(h, now) ==
  IF now - h.last >= WindowMs THEN [count |-> 0, last |-> now] ELSE h

\* if (now - h.last > 60_000) { h.count = 0; h.last = now; }
Windowed(h, now) ==
  IF now - h.last > WindowMs THEN [count |-> 0, last |-> now] ELSE h

\* ++h.count > RATE_PER_MIN
OverLimit(h) == h.count > RATE_PER_MIN

\* The window of a source key as the specification counts it: a request opens
\* a window when the key has none or when it arrives more than 60 s after the
\* start of the current one; seen counts the requests of the window and
\* admitted those of them that were let through.
WindowOf(key, now) ==
  IF key \in DOMAIN win /\ now - win[key].start <= WindowMs
  THEN win[key]
  ELSE [start |-> now, seen |-> 0, admitted |-> 0]

\* the arrival times, among times, that lie in the 60 s that end at now
RECURSIVE Within(_, _)
Within(times, now) ==
  IF times = <<>> THEN <<>>
  ELSE IF now - Head(times) <= WindowMs THEN times
  ELSE Within(Tail(times), now)

\* the history of admissions after a request of key is admitted at now; only
\* the sources under observation have one
Noted(key, now) ==
  IF key \in DOMAIN admits
  THEN [admits EXCEPT ![key] = Append(Within(@, now), now)]
  ELSE admits

\* mutant: the limiter counts on a copy of the bucket and stores it only on
\* admission, so the count of a rejected request is lost
ArriveOnCopy(req) ==
  /\ nreq' = nreq + 1
  /\ LET key == SourceKey(req)
         w == Windowed(Bucket(key, clock), clock)
         h == [w EXCEPT !.count = @ + 1]
         r == [req EXCEPT !.n = nreq + 1]
         g == WindowOf(key, clock)
     IN IF OverLimit(h)
        THEN /\ hits' = hits
             /\ resp' = Reply(r, 429, "Too many requests", <<"rate">>)
             /\ inflight' = inflight
             /\ win' = Put(win, key, [g EXCEPT !.seen = @ + 1])
             /\ admits' = admits
        ELSE /\ hits' = Put(hits, key, h)
             /\ inflight' = inflight \cup {r}
             /\ resp' = resp
             /\ win' = Put(win, key, [g EXCEPT !.seen = @ + 1, !.admitted = @ + 1])
             /\ admits' = Noted(key, clock)
  /\ UNCHANGED <<variant, clock, registry, probe, huds, up, clubs, members, calls>>

\* mutant: the limiter is mounted behind the GET routes and sees POSTs only
ArrivePostsOnly(req) ==
  /\ nreq' = nreq + 1
  /\ LET key == SourceKey(req)
         w == Windowed(Bucket(key, clock), clock)
         h == [w EXCEPT !.count = @ + 1]
         r == [req EXCEPT !.n = nreq + 1]
         g == WindowOf(key, clock)
     IN IF req.route \in {"GET /", "GET /api/register"}
        THEN /\ inflight' = inflight \cup {r}
             /\ UNCHANGED <<hits, resp, win, admits>>
        ELSE IF OverLimit(h)
        THEN /\ hits' = IF key \in DOMAIN hits THEN [hits EXCEPT ![key] = h] ELSE hits
             /\ resp' = Reply(r, 429, "Too many requests", <<"rate">>)
             /\ inflight' = inflight
             /\ win' = Put(win, key, [g EXCEPT !.seen = @ + 1])
             /\ admits' = admits
        ELSE /\ hits' = Put(hits, key, h)
             /\ inflight' = inflight \cup {r}
             /\ resp' = resp
             /\ win' = Put(win, key, [g EXCEPT !.seen = @ + 1, !.admitted = @ + 1])
             /\ admits' = Noted(key, clock)
  /\ UNCHANGED <<variant, clock, registry, probe, huds, up, clubs, members, calls>>

\* The bucket object is updated in place, so a rejected request's increment
\* stays in a bucket that is already in the Map; hits.set runs only on admission.
Arrive(req) ==
  /\ nreq' = nreq + 1
  /\ LET key == SourceKey(req)
         w == Windowed(Bucket(key, clock), clock)
         h == [w EXCEPT !.count = @ + 1]
         r == [req EXCEPT !.n = nreq + 1]
         g == WindowOf(key, clock)
     IN IF OverLimit(h)
        THEN /\ hits' = IF key \in DOMAIN hits THEN [hits EXCEPT ![key] = h] ELSE hits
             /\ resp' = Reply(r, 429, "Too many requests", <<"rate">>)
             /\ inflight' = inflight
             /\ win' = Put(win, key, [g EXCEPT !.seen = @ + 1])
             /\ admits' = admits
        ELSE /\ hits' = Put(hits, key, h)
             /\ inflight' = inflight \cup {r}
             /\ resp' = resp
             /\ win' = Put(win, key, [g EXCEPT !.seen = @ + 1, !.admitted = @ + 1])
             /\ admits' = Noted(key, clock)
  /\ UNCHANGED <<variant, clock, registry, probe, huds, up, clubs, members, calls>>

----------------------------------------------------------------------------
(* Route handlers *)

\* mutant: the timestamp is checked before the signature is compared
GateFreshFirst(req, now) ==
  LET got == GotSig(req)
      want == sigSHA1(SHARED_SECRET, req.raw)
      ts == ToNumber(JsonParse(req.raw).timestamp)
  IN  IF got = NoSig THEN "missing"
      ELSE IF Throws(JsonParse(req.raw).timestamp) THEN "throw"
      ELSE IF ~withinWindow(ts, now) THEN "stale"
      ELSE IF got # want THEN "badsig"
      ELSE "ok"

\* The checks both POST handlers make before their operation, in the order of
\* the code: signature presented, signature equal to the server's, timestamp
\* within the window.  Number(d.timestamp) throws on an object that cannot be
\* converted, and the handler's catch answers.
Gate(req, now) ==
  LET got == GotSig(req)
      want == sigSHA1(SHARED_SECRET, req.raw)
      ts == ToNumber(JsonParse(req.raw).timestamp)
  IN  IF got = NoSig THEN "missing"
      ELSE IF got # want THEN "badsig"
      ELSE IF Throws(JsonParse(req.raw).timestamp) THEN "throw"
      ELSE IF ~withinWindow(ts, now) THEN "stale"
      ELSE "ok"

\* The 401 body of the first build's register handler carries the signature
\* the server computed (expected: want); every other 401 body does not.
Disclosed(req) ==
  IF variant = 1 /\ req.route = "POST /api/register"
  THEN sigSHA1(SHARED_SECRET, req.raw) ELSE NoSig

\* the three early returns of a POST handler, and its catch
Rejection(req, g) ==
  CASE g = "missing" ->
         Reply(req, 400, "Missing signature (X-Sig or ?sig=)", <<"rate", "present">>)
    [] g = "badsig" ->
         [Reply(req, 401, "Bad sig", <<"rate", "present", "match">>)
            EXCEPT !.expected = Disclosed(req)]
    [] g = "throw" ->
         Reply(req, 500, "Server error", <<"rate", "present", "match", "fresh">>)
    [] OTHER ->
         Reply(req, 400, "Stale or invalid timestamp",
               <<"rate", "present", "match", "fresh">>)

Served(req) == Reply(req, 200, "", <<"rate", "present", "match", "fresh", "op">>)

\* catch (e) { ... res.status(500) ... } around the operation
Failed(req) ==
  Reply(req, 500, "Server error", <<"rate", "present", "match", "fresh", "op">>)

\* String(d.avatar_id || '') or String(d.avatar_name || '') throws
RegisterThrows(d) == Throws(d.avatar_id) \/ Throws(d.avatar_name)

\* String(id) throws for one of the ids looked up
ScanThrows(targets, cap) ==
  /\ targets.isArray
  /\ \E i \in 1..Len(targets.items) : i <= cap /\ Throws(targets.items[i])

\* mutant: a refresh rebuilds the record and leaves the classification out
UpsertDropsClass(id, name, nowS) ==
  IF id \in DOMAIN registry
  THEN [registry EXCEPT ![id] =
          [name |-> IF name # "" THEN name ELSE @.name, mc |-> "", rank |-> "",
           first_seen |-> @.first_seen, last_seen |-> nowS]]
  ELSE Put(registry, id,
           [name |-> IF name # "" THEN name ELSE UNKNOWN, mc |-> DEFAULT_MC,
            rank |-> lookupRankFor(id), first_seen |-> nowS, last_seen |-> nowS])

\* mutant: a refresh stamps first_seen, not last_seen
UpsertStampsFirst(id, name, nowS) ==
  IF id \in DOMAIN registry
  THEN [registry EXCEPT ![id] =
          [@ EXCEPT !.name = IF name # "" THEN name ELSE @, !.first_seen = nowS]]
  ELSE Put(registry, id,
           [name |-> IF name # "" THEN name ELSE UNKNOWN, mc |-> DEFAULT_MC,
            rank |-> lookupRankFor(id), first_seen |-> nowS, last_seen |-> nowS])

\* mutant: a refresh stamps first_seen again
UpsertRestamps(id, name, nowS) ==
  Put(registry, id,
      [name |-> IF name # "" THEN name
                ELSE IF id \in DOMAIN registry THEN registry[id].name ELSE UNKNOWN,
       mc |-> DEFAULT_MC, rank |-> lookupRankFor(id),
       first_seen |-> nowS, last_seen |-> nowS])

\* mutant: a refresh stores the name as sent, empty or not
UpsertBlanksName(id, name, nowS) ==
  IF id \in DOMAIN registry
  THEN [registry EXCEPT ![id] = [@ EXCEPT !.name = name, !.last_seen = nowS]]
  ELSE Put(registry, id,
           [name |-> IF name # "" THEN name ELSE UNKNOWN, mc |-> DEFAULT_MC,
            rank |-> lookupRankFor(id), first_seen |-> nowS, last_seen |-> nowS])

\* existing.name = name || existing.name; existing.last_seen = nowS, or
\* registry.set(id, { name: name || '(unknown)', ... })
Upsert(id, name, nowS) ==
  IF id \in DOMAIN registry
  THEN [registry EXCEPT ![id] =
          [@ EXCEPT !.name = IF name # "" THEN name ELSE @, !.last_seen = nowS]]
  ELSE Put(registry, id,
           [name |-> IF name # "" THEN name ELSE UNKNOWN, mc |-> DEFAULT_MC,
            rank |-> lookupRankFor(id), first_seen |-> nowS, last_seen |-> nowS])

\* mutant: the record is written before the timestamp is checked
RegisteredBeforeFresh(req, g) ==
  LET d == JsonParse(req.raw)
  IN  IF g \in {"ok", "stale"} /\ ~RegisterThrows(d)
      THEN Upsert(StringOrEmpty(d.avatar_id), StringOrEmpty(d.avatar_name),
                  FloorSec(clock))
      ELSE registry

\* the registry after the register handler has run with gate outcome g
Registered(req, g) ==
  LET d == JsonParse(req.raw)
  IN  IF g = "ok" /\ ~RegisterThrows(d)
      THEN Upsert(StringOrEmpty(d.avatar_id), StringOrEmpty(d.avatar_name),
                  FloorSec(clock))
      ELSE registry

\* app.post('/api/register', ...)
Register(req) ==
  LET g == Gate(req, clock)
      id == StringOrEmpty(JsonParse(req.raw).avatar_id)
  IN  /\ registry' = Registered(req, g)
      /\ resp' = IF g # "ok" THEN Rejection(req, g)
                 ELSE IF RegisterThrows(JsonParse(req.raw)) THEN Failed(req)
                 \* where: String(d.region || '') is evaluated after the upsert
                 ELSE IF Throws(JsonParse(req.raw).region) THEN Failed(req)
                 ELSE [Served(req) EXCEPT !.who = registry'[id].name,
                                          !.rank = registry'[id].rank]

\* mutant: the two builds' caps are exchanged
ScanCapSwapped == IF variant = 1 THEN 50 ELSE 20

\* ids.slice(0, 20) in the first build, ids.slice(0, 50) in the second
ScanCap == IF variant = 1 THEN 20 ELSE 50

\* mutant: the age is counted from the last registration
OutcomeSinceLastSeen(id, nowS) ==
  LET key == JsString(id) IN
  IF key \notin DOMAIN registry
  THEN [id |-> id, who |-> UNKNOWN, mc |-> UNKNOWN, rank |-> UNKNOWN, age_days |-> 0]
  ELSE LET rec == registry[key]
           since == IF rec.last_seen # 0 THEN rec.last_seen ELSE nowS
       IN [id |-> id, who |-> rec.name, mc |-> rec.mc, rank |-> rec.rank,
           age_days |-> Max0((nowS - since) \div DaySec)]

\* the callback of ids.slice(0, cap).map(...)
Outcome(id, nowS) ==
  LET key == JsString(id) IN
  IF key \notin DOMAIN registry
  THEN [id |-> id, who |-> UNKNOWN, mc |-> UNKNOWN, rank |-> UNKNOWN, age_days |-> 0]
  ELSE LET rec == registry[key]
           since == IF rec.first_seen # 0 THEN rec.first_seen ELSE nowS
       IN [id |-> id, who |-> rec.name, mc |-> rec.mc, rank |-> rec.rank,
           age_days |-> Max0((nowS - since) \div DaySec)]

\* mutant: the outcomes come back in reverse order
ResultsReversed(targets, nowS) ==
  LET ids == IF targets.isArray THEN targets.items ELSE <<>>
      m == Min(Len(ids), ScanCap)
  IN [i \in 1..m |-> Outcome(ids[m + 1 - i], nowS)]

Results(targets, nowS) ==
  LET ids == IF targets.isArray THEN targets.items ELSE <<>>
  IN [i \in 1..Min(Len(ids), ScanCap) |-> Outcome(ids[i], nowS)]

\* mutant: a lookup that is served stamps last_seen of the records it reads
ScanTouches(req) ==
  LET g == Gate(req, clock)
      tg == JsonParse(req.raw).targets
      served == g = "ok" /\ ~ScanThrows(tg, ScanCap)
      read == IF tg.isArray THEN {JsString(tg.items[i]) : i \in DOMAIN tg.items} ELSE {}
  IN  /\ registry' = [id \in DOMAIN registry |->
                        IF served /\ id \in read
                        THEN [registry[id] EXCEPT !.last_seen = FloorSec(clock)]
                        ELSE registry[id]]
      /\ resp' = IF g # "ok" THEN Rejection(req, g)
                 ELSE IF ScanThrows(tg, ScanCap) THEN Failed(req)
                 ELSE [Served(req) EXCEPT !.results = Results(tg, FloorSec(clock))]

\* app.post('/api/scan', ...)
Scan(req) ==
  LET g == Gate(req, clock)
  IN  /\ registry' = registry
      /\ resp' = IF g # "ok" THEN Rejection(req, g)
                 ELSE IF ScanThrows(JsonParse(req.raw).targets, ScanCap) THEN Failed(req)
                 ELSE [Served(req) EXCEPT
                         !.results = Results(JsonParse(req.raw).targets, FloorSec(clock))]

\* app.get('/', ...): plain-text OK, no signature
Health(req) ==
  /\ resp' = Reply(req, 200, "", <<"rate">>)
  /\ registry' = registry

Handle(req) ==
  /\ req \in inflight
  /\ inflight' = inflight \ {req}
  /\ CASE req.route = "POST /api/register" -> Register(req)
       [] req.route = "POST /api/scan" -> Scan(req)
       [] OTHER -> Health(req)
  /\ UNCHANGED <<variant, clock, nreq, hits, win, probe, huds, up, clubs, members, calls,
               admits>>

----------------------------------------------------------------------------
(* The persisted variant (src/server.cjs, src/server.js and the earlier    *)
(* copies of them): strings of the {payload, sig} envelope.  A payload     *)
(* string is the JSON value it spells (val) and its spelling (form): the   *)
(* whitespace before, between the tokens of, and after the JSON text, how  *)
(* slashes inside its strings are written ("none": there is none, "plain": *)
(* /, "esc": \/, "bsesc": \\/, an escaped backslash before a slash), and   *)
(* whether the text is JSON at all.  Whitespace is a sequence of "SP",     *)
(* "CR" and "LF".                                                          *)

HudData(id, name, url) == [avatar_id |-> id, avatar_name |-> name, url |-> url]
ClubData(name, tag, founder) == [name |-> name, tag |-> tag, founder_id |-> founder]

Spelling(lead, gap, trail, slash, valid) ==
  [lead |-> lead, gap |-> gap, trail |-> trail, slash |-> slash, valid |-> valid]
Compact(slash) == Spelling(<<>>, <<>>, <<>>, slash, TRUE)

\* JSON.parse succeeds on the text
Parses(text) == text.form.valid

\* how JSON.stringify writes the slashes of a value
SlashOf(val) ==
  IF "url" \notin DOMAIN val THEN "none"
  ELSE IF val.url = Str("h\\/x") THEN "bsesc"
  ELSE IF val.url = Str("h/x") THEN "plain"
  ELSE "none"

\* JSON.stringify(val): no whitespace, slashes unescaped
Stringify(val) == JsonText(val, Compact(SlashOf(val)))

\* JSON.stringify(JSON.parse(text))
Canonical(text) == Stringify(JsonParse(text))

\* text.trim()
TrimText(text) == [text EXCEPT !.form.lead = <<>>, !.form.trail = <<>>]

\* text.replace(/\\\//g, '/'): \/ becomes /, and \\/ becomes \/, which spells
\* another value
UnescapeSlashes(text) ==
  CASE text.form.slash = "esc" -> [text EXCEPT !.form.slash = "plain"]
    [] text.form.slash = "bsesc" ->
         IF Parses(text)
         THEN [text EXCEPT !.form.slash = "esc", !.val.url = Str("h/x")]
         ELSE [text EXCEPT !.form.slash = "esc"]
    [] OTHER -> text

RECURSIVE CrlfToLf(_)
CrlfToLf(w) ==
  IF w = <<>> THEN <<>>
  ELSE IF Len(w) >= 2 /\ w[1] = "CR" /\ w[2] = "LF"
    THEN <<"LF">> \o CrlfToLf(SubSeq(w, 3, Len(w)))
  ELSE <<w[1]>> \o CrlfToLf(Tail(w))

RECURSIVE LfToCrlf(_)
LfToCrlf(w) ==
  IF w = <<>> THEN <<>>
  ELSE (IF w[1] = "LF" THEN <<"CR", "LF">> ELSE <<w[1]>>) \o LfToCrlf(Tail(w))

\* text.replace(/\r\n/g, '\n') and text.replace(/\n/g, '\r\n')
CrlfToLfText(text) ==
  [text EXCEPT !.form.lead = CrlfToLf(@), !.form.gap = CrlfToLf(@),
               !.form.trail = CrlfToLf(@)]
LfToCrlfText(text) ==
  [text EXCEPT !.form.lead = LfToCrlf(@), !.form.gap = LfToCrlf(@),
               !.form.trail = LfToCrlf(@)]

\* text + ws
AppendWs(text, ws) == [text EXCEPT !.form.trail = @ \o ws]

\* The fields of the envelope as express.json() hands them over
NoText == JsonText(JsNull, Compact("none"))
TextP(text) == [t |-> "string", text |-> text, val |-> JsNull]
ObjP(val) == [t |-> "object", text |-> NoText, val |-> val]
OtherP(t) == [t |-> t, text |-> NoText, val |-> JsNull]
StrS(hex) == [t |-> "string", hex |-> hex]
OtherS(t) == [t |-> t, hex |-> NoSig]
Envelope(payload, sig) == [payload |-> payload, sig |-> sig]

----------------------------------------------------------------------------
(* verifySig, the middleware in front of every signed route of the         *)
(* persisted variant                                                       *)

SECRET == "CHANGEME_SECRET"

\* mutant: the trimmed payload is one more candidate
CompatCandidatesAndTrimmed(payload) ==
  <<payload>>
    \o (IF Parses(payload) THEN <<Canonical(payload)>> ELSE <<>>)
    \o <<UnescapeSlashes(payload), CrlfToLfText(payload), LfToCrlfText(payload),
         AppendWs(payload, <<"LF">>), AppendWs(payload, <<"CR", "LF">>),
         TrimText(payload)>>

\* server.cjs: the candidates in the order they are pushed
CompatCandidates(payload) ==
  <<payload>>
    \o (IF Parses(payload) THEN <<Canonical(payload)>> ELSE <<>>)
    \o <<UnescapeSlashes(payload), CrlfToLfText(payload), LfToCrlfText(payload),
         AppendWs(payload, <<"LF">>), AppendWs(payload, <<"CR", "LF">>)>>

\* server.js, part_003, part_005: payload = payload.trim(), then the raw
\* match and the canonical match
TrimCandidates(payload) ==
  LET p == TrimText(payload)
  IN  <<p>> \o (IF Parses(p) THEN <<Canonical(p)>> ELSE <<>>)

\* index of the first candidate whose digest is sig, 0 when there is none
FirstMatch(cands, sig) ==
  LET hit == {i \in 1..Len(cands) : sha1(SECRET, cands[i]) = sig}
  IN  IF hit = {} THEN 0 ELSE CHOOSE i \in hit : \A j \in hit : i <= j

\* typeof payload === 'string' && typeof sig === 'string', after an object
\* payload has been re-serialized (part_005 does not re-serialize)
WellTyped(body) ==
  /\ \/ body.payload.t = "string"
     \/ body.payload.t = "object" /\ variant # 5
  /\ body.sig.t = "string"

PayloadString(p) == IF p.t = "object" THEN Stringify(p.val) ELSE p.text

\* what verifySig does with a request: next = TRUE when it calls next(), with
\* req.data = data; otherwise the response it sends.  matched is the index of
\* the matching candidate and hashed the number of candidates it hashed.
Verdict(next, status, text, data, matched, hashed) ==
  [next |-> next, status |-> status, text |-> text, data |-> data,
   matched |-> matched, hashed |-> hashed]

\* mutant: the digests are compared before the types are checked
verifySigUntyped(body) ==
  LET payload == PayloadString(body.payload)
      sigLower == ToLowerCase(Trim(body.sig.hex))
      cands == IF variant = 3 THEN CompatCandidates(payload) ELSE TrimCandidates(payload)
      i == FirstMatch(cands, sigLower)
  IN  IF i = 0 THEN Verdict(FALSE, 401, "Bad sig", JsNull, 0, Len(cands))
      ELSE IF ~Parses(cands[i]) THEN Verdict(FALSE, 400, "Bad JSON", JsNull, i, i)
      ELSE Verdict(TRUE, 0, "", JsonParse(cands[i]), i, i)

verifySig(body) ==
  IF ~WellTyped(body) THEN Verdict(FALSE, 400, "Bad payload", JsNull, 0, 0)
  ELSE
  LET payload == PayloadString(body.payload)
      sigLower == ToLowerCase(Trim(body.sig.hex))
      cands == IF variant = 3 THEN CompatCandidates(payload) ELSE TrimCandidates(payload)
      i == FirstMatch(cands, sigLower)
  IN  IF i = 0 THEN Verdict(FALSE, 401, "Bad sig", JsNull, 0, Len(cands))
      ELSE IF ~Parses(cands[i]) THEN Verdict(FALSE, 400, "Bad JSON", JsNull, i, i)
      ELSE Verdict(TRUE, 0, "", JsonParse(cands[i]), i, i)

----------------------------------------------------------------------------
(* Routes of the persisted variant.  verifySig runs first; the handler is  *)
(* an async function that awaits the store and has no try/catch, and the   *)
(* application installs no error handler.                                  *)

\* x || ''
OrEmpty(v) == IF Truthy(v) THEN v ELSE Str("")

\* updateOne({ avatar_id }, { $set: { avatar_name, url, updated_at } },
\*           { upsert: true })
UpsertHud(data, now) ==
  Put(huds, data.avatar_id,
      [avatar_name |-> OrEmpty(data.avatar_name), url |-> OrEmpty(data.url),
       updated_at |-> now])

\* updateOne({ avatar_id }, { $set: { updated_at } }): no upsert
TouchHud(data, now) ==
  IF data.avatar_id \in DOMAIN huds
  THEN [huds EXCEPT ![data.avatar_id].updated_at = now]
  ELSE huds

\* mutant: the listing does not filter on the url
ListingAll(h) == {<<JsString(id), JsString(h[id].url)>> : id \in DOMAIN h}

\* find({ url: { $exists: true, $ne: '' } }) mapped to `${avatar_id},${url}`
Listing(h) ==
  {<<JsString(id), JsString(h[id].url)>> : id \in {i \in DOMAIN h : h[i].url # Str("")}}

\* req.get('x-auth') || req.get('X-Auth') || req.query.key
KeyShown(req) == IF req.xauth # "" THEN req.xauth ELSE req.qkey

\* The handler's promise is rejected (the store call failed, or req.data is
\* null and cannot be destructured).  Nothing in the application takes the
\* rejection: under Express 4 no response is sent, and the unhandled
\* rejection ends the process or not, depending on the Node version; Express
\* 5 passes it to its default error handler, which answers 500.
Rejected(req) ==
  \E outcome \in {"hang", "crash", "500"} :
    /\ resp' = IF outcome = "500"
               THEN Reply(req, 500, "Internal Server Error", <<"verified", "failed">>)
               ELSE Reply(req, 0, "", <<"verified", "failed">>)
    /\ up' = (outcome # "crash")
    /\ huds' = huds

\* the handlers of /v1/hud/register and /v1/hud/heartbeat after verifySig
HudWrite(req, data) ==
  \/ /\ data # JsNull
     /\ huds' = IF req.route = "POST /v1/hud/register"
                THEN UpsertHud(data, clock) ELSE TouchHud(data, clock)
     /\ resp' = Reply(req, 200, "OK", <<"verified", "op">>)
     /\ up' = up
  \/ Rejected(req)

\* a signed route: verifySig, then the handler
HudSigned(req) ==
  LET v == verifySig(req.body)
  IN  IF v.next THEN HudWrite(req, v.data)
      ELSE /\ resp' = Reply(req, v.status, v.text, <<>>)
           /\ huds' = huds
           /\ up' = up

\* app.get('/v1/hud/endpoints', ...)
HudEndpoints(req) ==
  IF KeyShown(req) # SECRET
  THEN /\ resp' = Reply(req, 401, "No", <<>>)
       /\ huds' = huds
       /\ up' = up
  ELSE \/ /\ resp' = [Reply(req, 200, "", <<"key", "op">>) EXCEPT !.results = Listing(huds)]
          /\ huds' = huds
          /\ up' = up
       \/ Rejected(req)

\* one request to the persisted server; a stopped process takes none
HudCall(req) ==
  /\ up
  /\ nreq' = nreq + 1
  /\ LET r == [req EXCEPT !.n = nreq + 1]
     IN  IF r.route = "GET /v1/hud/endpoints" THEN HudEndpoints(r) ELSE HudSigned(r)
  /\ UNCHANGED <<variant, clock, hits, win, registry, inflight, probe, clubs, members, calls,
               admits>>

----------------------------------------------------------------------------
(* POST /v1/club/create of the persisted variant.  The handler awaits the  *)
(* store twice: it runs up to the insert of the club, is resumed when the  *)
(* insert is done and asks for the update of the founder's member record,  *)
(* and is resumed again when the update is done, to answer.  The store     *)
(* applies each command at once; between the steps of one handler the       *)
(* steps of others run.                                                     *)

\* nanoid(): ten random characters out of 62; the n-th request draws an id
\* no other request draws
nanoid(n) == n

\* verifySig, const club_id = nanoid(), and the insertOne into clubs, applied
ClubCreate(req) ==
  /\ up
  /\ nreq' = nreq + 1
  /\ LET r == [req EXCEPT !.n = nreq + 1]
         v == verifySig(r.body)
         club_id == nanoid(r.n)
     IN  IF ~v.next
         THEN /\ resp' = Reply(r, v.status, v.text, <<>>)
              /\ UNCHANGED <<clubs, calls>>
         ELSE /\ clubs' = clubs \cup
                   {[club_id |-> club_id, name |-> OrEmpty(v.data.name),
                     tag |-> OrEmpty(v.data.tag), founder_id |-> OrEmpty(v.data.founder_id)]}
              /\ calls' = calls \cup
                   {[req |-> r, club_id |-> club_id, founder_id |-> v.data.founder_id,
                     pc |-> "update"]}
              /\ resp' = resp
  /\ UNCHANGED <<variant, clock, hits, win, registry, inflight, probe, huds, up, members, admits>>

\* updateOne({ avatar_id: founder_id }, { $set: { club_id, rank: 'Prez' } },
\*           { upsert: true }), applied
ClubUpdate(c) ==
  /\ up
  /\ c \in calls
  /\ c.pc = "update"
  /\ members' = Put(members, c.founder_id, [club_id |-> c.club_id, rank |-> "Prez"])
  /\ calls' = (calls \ {c}) \cup {[c EXCEPT !.pc = "respond"]}
  /\ UNCHANGED <<variant, clock, nreq, hits, win, registry, inflight, resp, probe, huds, up,
                 clubs, admits>>

\* res.json({ club_id })
ClubRespond(c) ==
  /\ up
  /\ c \in calls
  /\ c.pc = "respond"
  /\ resp' = [Reply(c.req, 200, "", <<"verified", "op">>) EXCEPT !.results = <<c.club_id>>]
  /\ calls' = calls \ {c}
  /\ UNCHANGED <<variant, clock, nreq, hits, win, registry, inflight, probe, huds, up, clubs,
                 members, admits>>

\* the update of the member record fails: the handler's promise is rejected
\* after the club has been inserted
ClubFail(c) ==
  /\ up
  /\ c \in calls
  /\ c.pc = "update"
  /\ Rejected(c.req)
  /\ calls' = calls \ {c}
  /\ UNCHANGED <<variant, clock, nreq, hits, win, registry, inflight, probe, clubs, members,
                 admits>>

----------------------------------------------------------------------------
(* The environment: clients that hold the secret, senders that do not, and *)
(* the clock                                                               *)

StartClock == StartS * 1000 + 999

\* A request as a sender of the given kind builds it: "header" and "query"
\* senders hold the secret and sign the exact bytes; a "wrong" sender signs
\* with a secret of its own; "none" presents no signature.
Req(src, route, kind, raw) ==
  [n |-> 0, holds |-> kind \in {"header", "query"}, replayed |-> FALSE, xff |-> src.xff,
   remote |-> src.remote, route |-> route,
   xsig |-> CASE kind = "header" -> sigSHA1(SHARED_SECRET, raw)
              [] kind = "wrong" -> sigSHA1("guess", raw)
              [] OTHER -> NoSig,
   qsig |-> IF kind = "query" THEN sigSHA1(SHARED_SECRET, raw) ELSE NoSig,
   raw |-> raw]

Direct == [xff |-> <<>>, remote |-> "ip2"]
Proxied == [xff |-> <<"ip1", "proxy">>, remote |-> "ip2"]

RegBody(id, name, ts) == JsonText(Body(id, name, ts, NoTargets), "min")
ScanBody(ts, items) == JsonText(Body(Undef, Undef, ts, items), "min")

\* timestamp claims around the server's start time, at and just beyond the drift
TsPool ==
  {Num(StartS - TS_DRIFT_SEC), Num(StartS), Num(StartS + TS_DRIFT_SEC + 1), Undef}

\* register bodies of one subject with every timestamp claim
GateBodies == {RegBody(Str("a"), Str("Rex"), ts) : ts \in TsPool}

GateRegisterReqs ==
  {Req(Direct, "POST /api/register", "header", raw) : raw \in GateBodies}
  \cup {Req(Direct, "POST /api/register", kind, RegBody(Str("a"), Str("Rex"), Num(StartS))) :
          kind \in {"none", "wrong", "query"}}

GateScanReqs ==
  {Req(Direct, "POST /api/scan", "header", ScanBody(ts, Targets(<<Str("a"), Str("zz")>>))) :
     ts \in {Num(StartS), Num(StartS + TS_DRIFT_SEC + 1)}}
  \cup {Req(Direct, "POST /api/scan", kind, ScanBody(Num(StartS), Targets(<<Str("a")>>))) :
          kind \in {"none", "wrong"}}

\* what the exploration lets the environment send
CanSend(max) == nreq < max /\ Cardinality(inflight) < MaxInFlight

ClientRegister == CanSend(MaxReqs) /\ \E req \in GateRegisterReqs : Arrive(req)

ClientScan == CanSend(MaxReqs) /\ \E req \in GateScanReqs : Arrive(req)

ClientHealth ==
  CanSend(MaxReqs) /\ Arrive(Req(Direct, "GET /", "none", JsonText(EmptyBody, "")))

\* A sender without the secret resends the body of the request answered last
\* with the signature that answer disclosed.
Forge ==
  /\ CanSend(MaxReqs)
  /\ resp.expected # NoSig
  /\ \E route \in {"POST /api/register", "POST /api/scan"} :
       Arrive([Req(Direct, route, "none", resp.req.raw) EXCEPT !.xsig = resp.expected])

\* An eavesdropper retransmits, unchanged, the request that was served last.
Replay ==
  /\ CanSend(MaxReqs)
  /\ resp.status = 200
  /\ resp.req.route # "GET /"
  /\ Arrive([resp.req EXCEPT !.replayed = TRUE])

Respond == \E req \in inflight : Handle(req)

\* The instants at which something is observed: the start, the next
\* millisecond (a new second), the last millisecond of the limiter window that
\* opened at the start, and the first one after it.
Instants ==
  {StartClock, StartClock + 1, StartClock + WindowMs, StartClock + WindowMs + 1}

\* Date.now() never goes back
AdvanceTo(t) ==
  /\ t > clock
  /\ clock' = t
  /\ UNCHANGED <<variant, nreq, hits, win, registry, inflight, resp, probe, huds, up, clubs,
               members, calls, admits>>

Tick == \E t \in Instants : AdvanceTo(t)

NoProbe == [now |-> 0, drift |-> 0, claim |-> Undef, fresh |-> FALSE]

Started ==
  /\ clock = StartClock
  /\ nreq = 0
  /\ hits = EmptyMap
  /\ win = EmptyMap
  /\ registry = EmptyMap
  /\ inflight = {}
  /\ resp = NoResp
  /\ probe = NoProbe
  /\ huds = EmptyMap
  /\ up = TRUE
  /\ clubs = {}
  /\ members = EmptyMap
  /\ calls = {}

\* no source's admissions are under observation
Unobserved == admits = EmptyMap

Init == variant \in {1, 2} /\ Started /\ Unobserved

Next ==
  \/ ClientRegister
  \/ ClientScan
  \/ ClientHealth
  \/ Forge
  \/ Replay
  \/ Respond
  \/ Tick

Spec == Init /\ [][Next]_vars

----------------------------------------------------------------------------
(* Properties of the request gate, checked under Spec *)

Range(seq) == {seq[i] : i \in DOMAIN seq}
IsPost(req) == req.route \in {"POST /api/register", "POST /api/scan"}
ClaimOf(req) == ToNumber(JsonParse(req.raw).timestamp)
InWindow(req, atMs) ==
  ClaimOf(req).fin /\ Abs(FloorSec(atMs) - ClaimOf(req).v) <= TS_DRIFT_SEC
Stale == "Stale or invalid timestamp"

\* C2: a register request gets past the signature check only if its sender
\* holds the shared secret.
C2_AdmittedProvesSecret ==
  (resp.req.route = "POST /api/register" /\ "fresh" \in Range(resp.checks))
    => resp.req.holds

C5_Answer(req, atMs) ==
  IF GotSig(req) = NoSig
    THEN <<400, <<"rate", "present">>>>
  ELSE IF GotSig(req) # sigSHA1(SHARED_SECRET, req.raw)
    THEN <<401, <<"rate", "present", "match">>>>
  ELSE IF ~InWindow(req, atMs)
    THEN <<400, <<"rate", "present", "match", "fresh">>>>
  ELSE <<200, <<"rate", "present", "match", "fresh", "op">>>>

\* C5: a POST request is answered by the first failing check in the order
\* rate limit, signature presence, signature match, freshness, operation (429,
\* 400, 401, 400, else 200), and no check after the failing one is evaluated.
C5_GateOrder ==
  /\ (resp.n > 0 /\ IsPost(resp.req)) =>
       /\ resp.status = 429 <=> resp.checks = <<"rate">>
       /\ resp.status # 429 => <<resp.status, resp.checks>> = C5_Answer(resp.req, resp.at)
       /\ resp.n = nreq =>
            (resp.status = 429 <=> win[SourceKey(resp.req)].seen > RATE_PER_MIN)
  /\ \A req \in inflight :
       req.n = nreq => win[SourceKey(req)].seen <= RATE_PER_MIN

\* a request with a wrong signature and a stale timestamp is answered 401
C5_Witness ==
  /\ resp.status = 401
  /\ resp.checks = <<"rate", "present", "match">>
  /\ ~InWindow(resp.req, resp.at)

\* C6: a response other than 200 leaves the registry as it was.
C6_RejectionKeepsRegistry ==
  [][(resp'.n # resp.n /\ resp'.status # 200) => registry' = registry]_vars

\* a validly signed, stale request is refused while the registry holds a record
C6_Witness ==
  /\ registry # EmptyMap
  /\ resp.status = 400
  /\ resp.error = Stale
  /\ GotSig(resp.req) = sigSHA1(SHARED_SECRET, resp.req.raw)

----------------------------------------------------------------------------
(* SpecRate: the limiter alone, two sources *)

RateReqs ==
  {Req(src, "GET /", "none", JsonText(EmptyBody, "")) : src \in {Direct, Proxied}}
  \cup {Req(Direct, "POST /api/register", "header",
            RegBody(Str("a"), Str("Rex"), Num(StartS)))}

RateSend == CanSend(MaxRateReqs) /\ \E req \in RateReqs : Arrive(req)

NextRate == RateSend \/ Respond \/ Tick

SpecRate == Init /\ [][NextRate]_vars

\* C1: of the requests of one source key in one window (opened by the key's
\* first request, or by the first one arriving more than 60 s after the start
\* of the window before), the first RATE_PER_MIN are admitted and all further
\* ones rejected; the bucket's window start is the arrival time of the request
\* that opened the window, and that request counts as 1.
C1_FixedWindow ==
  \A key \in DOMAIN win :
    /\ win[key].admitted = Min(win[key].seen, RATE_PER_MIN)
    /\ key \in DOMAIN hits
    /\ hits[key].last = win[key].start
    /\ win[key].seen = 1 => hits[key].count = 1
    /\ (resp.status = 429 /\ resp.n = nreq /\ SourceKey(resp.req) = key)
         => win[key].seen > RATE_PER_MIN

\* a source was answered 429 and, more than 60 s after its window began, was
\* admitted again in a new window
C1_Witness ==
  /\ resp.status = 429
  /\ LET key == SourceKey(resp.req)
     IN /\ win[key].start > resp.at
        /\ win[key].seen = 1
        /\ win[key].admitted = 1
        /\ hits[key] = [count |-> 1, last |-> clock]

\* the request the limiter processed last
Newest == IF resp.n = nreq THEN resp.req ELSE CHOOSE r \in inflight : r.n = nreq

\* the count the bucket of key holds for the window that is current at now
CountBefore(key, now) ==
  IF key \in DOMAIN hits /\ now - hits[key].last <= WindowMs THEN hits[key].count ELSE 0

\* C21: every request the limiter processes raises the stored count of its
\* source's bucket by exactly one, admitted or answered 429; while a bucket's
\* window start stays the same its count never decreases; the stored count is
\* the number of requests of the source in the window, also beyond the limit.
C21_RejectionsCount ==
  [][/\ nreq' = nreq + 1 =>
          LET key == SourceKey(Newest')
          IN /\ key \in DOMAIN hits'
             /\ hits'[key].count = CountBefore(key, clock) + 1
             /\ hits'[key].count = win'[key].seen
     /\ \A key \in DOMAIN hits :
          /\ key \in DOMAIN hits'
          /\ hits'[key].last = hits[key].last => hits'[key].count >= hits[key].count
    ]_vars

\* a source's second rejection in one window: the count is two above the limit
C21_Witness ==
  /\ resp.status = 429
  /\ resp.n = nreq
  /\ hits[SourceKey(resp.req)].count = RATE_PER_MIN + 2
  /\ win[SourceKey(resp.req)].admitted = RATE_PER_MIN

----------------------------------------------------------------------------
(* SpecBurst: one source sends as fast as the limiter lets it, around the  *)
(* boundaries of its windows; its admissions are under observation          *)

BurstSend ==
  CanSend(MaxBurstReqs) /\ Arrive(Req(Direct, "GET /", "none", JsonText(EmptyBody, "")))

\* the start, half a window later, the last millisecond of the window that
\* opened at the start and the first one after it, and the same for the
\* window that opens then
BurstInstants ==
  {StartClock, StartClock + WindowMs \div 2, StartClock + WindowMs, StartClock + WindowMs + 1,
   StartClock + 2 * WindowMs + 1, StartClock + 2 * WindowMs + 2}

TickBurst == \E t \in BurstInstants : AdvanceTo(t)

InitBurst ==
  /\ variant \in {1, 2}
  /\ Started
  /\ admits = [key \in {SourceKey(Direct)} |-> <<>>]

NextBurst == BurstSend \/ Respond \/ TickBurst

SpecBurst == InitBurst /\ [][NextBurst]_vars

\* C22: in every interval of 60 seconds, ends included, the limiter admits
\* at most 2 x limit requests of one source.  The interval of 60 s that ends
\* at an admission holds at least as many admissions as any interval of 60 s
\* in which that admission is the last, so it is enough to count in those.
C22_BoundaryDoubling ==
  \A key \in DOMAIN admits :
    /\ Len(admits[key]) <= 2 * RATE_PER_MIN
    /\ \A i \in DOMAIN admits[key] :
         admits[key][Len(admits[key])] - admits[key][i] <= WindowMs

\* the burst across a boundary: the rest of one window's budget and the whole
\* budget of the next window were admitted within 60 s, which is more than
\* the limit
C22_Witness ==
  \E key \in DOMAIN admits :
    /\ key \in DOMAIN hits
    /\ Len(admits[key]) = 2 * RATE_PER_MIN - 1
    /\ admits[key][1] < hits[key].last
    /\ hits[key].count = RATE_PER_MIN

----------------------------------------------------------------------------
(* SpecKeys: the limiter under traffic of four senders: one connects        *)
(* directly, one through a proxy at the same address that names it in       *)
(* X-Forwarded-For, one sends a header whose first entry is empty, and one  *)
(* has neither header nor socket address                                    *)

BlankForward == [xff |-> <<"", "ip1">>, remote |-> "ip2"]
Anonymous == [xff |-> <<>>, remote |-> ""]

KeySend ==
  CanSend(MaxKeyReqs) /\
  \E src \in {Direct, Proxied, BlankForward, Anonymous} :
    Arrive(Req(src, "GET /", "none", JsonText(EmptyBody, "")))

TickKeys == AdvanceTo(StartClock + WindowMs + 1)

NextKeys == KeySend \/ Respond \/ TickKeys

SpecKeys == Init /\ [][NextKeys]_vars

\* the source key of a request as the claim defines it
C26_KeyOf(req) ==
  IF req.xff # <<>> /\ req.xff[1] # "" THEN req.xff[1]
  ELSE IF req.remote # "" THEN req.remote
  ELSE "unknown"

\* C26: a request of source key A (first entry of X-Forwarded-For, else the
\* socket address, else 'unknown') leaves the bucket of every other key as it
\* was, count and window start, and is rejected only when A's own requests
\* in A's window exceed the limit.
C26_BucketsIndependent ==
  [][nreq' = nreq + 1 =>
       LET A == C26_KeyOf(Newest')
       IN /\ \A B \in ((DOMAIN hits) \cup (DOMAIN hits')) \ {A} :
               /\ B \in DOMAIN hits
               /\ B \in DOMAIN hits'
               /\ hits'[B] = hits[B]
          /\ (resp'.n = nreq' /\ resp'.status = 429) =>
               /\ A \in DOMAIN win'
               /\ win'[A].seen > RATE_PER_MIN
    ]_vars

\* a sender behind the address of a source that has been refused is admitted
\* under its own key
C26_Witness ==
  /\ resp.status = 429
  /\ \E r \in inflight :
       /\ r.n > resp.n
       /\ r.remote = resp.req.remote
       /\ SourceKey(r) # SourceKey(resp.req)
       /\ hits[SourceKey(r)].count = 1
       /\ hits[SourceKey(resp.req)].count > RATE_PER_MIN

----------------------------------------------------------------------------
(* SpecReg: the registry under registrations that carry the sender's current *)
(* time                                                                      *)

RegisterReqs ==
  {Req(Direct, "POST /api/register", "header", RegBody(who[1], who[2], Num(FloorSec(clock)))) :
     who \in {<<Str("a"), Str("Rex")>>, <<Str("a"), Str("Max")>>, <<Str("a"), Str("")>>,
              <<Str("a"), Undef>>, <<Str("b"), Str("")>>}}
  \cup {Req(Direct, "POST /api/register", "header",
            RegBody(Str("a"), Str("Rex"), Num(StartS - TS_DRIFT_SEC - 1)))}

LookupReqs ==
  {Req(Direct, "POST /api/scan", "header",
       ScanBody(Num(FloorSec(clock)), Targets(<<Str("a"), Str("b")>>)))}

RegRegister == CanSend(MaxRegReqs) /\ \E req \in RegisterReqs : Arrive(req)

RegScan == CanSend(MaxRegReqs) /\ \E req \in LookupReqs : Arrive(req)

\* a new second, and the first millisecond after the first limiter window
TickReg == \E t \in {StartClock + 1, StartClock + WindowMs + 1} : AdvanceTo(t)

NextReg == RegRegister \/ RegScan \/ Respond \/ TickReg

SpecReg == Init /\ [][NextReg]_vars

IdOf(req) == StringOrEmpty(JsonParse(req.raw).avatar_id)
IsRegistered(r) == r.status = 200 /\ r.req.route = "POST /api/register"

\* C7: a record, once in the registry, stays there with the first_seen it was
\* created with, which is the server time of the registration that created it;
\* every successful registration leaves last_seen at its own server time.
C7_WriteOnceFirstSeen ==
  [][/\ \A id \in DOMAIN registry :
          /\ id \in DOMAIN registry'
          /\ registry'[id].first_seen = registry[id].first_seen
     /\ \A id \in (DOMAIN registry') \ (DOMAIN registry) :
          /\ IsRegistered(resp') /\ resp'.n # resp.n /\ IdOf(resp'.req) = id
          /\ registry'[id].first_seen = FloorSec(resp'.at)
     /\ IsRegistered(resp') =>
          /\ IdOf(resp'.req) \in DOMAIN registry'
          /\ registry'[IdOf(resp'.req)].last_seen = FloorSec(resp'.at)
    ]_vars

\* a subject registered again in a later second
C7_Witness ==
  /\ IsRegistered(resp)
  /\ registry[IdOf(resp.req)].first_seen < FloorSec(resp.at)
  /\ registry[IdOf(resp.req)].last_seen = FloorSec(resp.at)

NameSent(req) == JsonParse(req.raw).avatar_name
Blank(v) == v.t = "undefined" \/ (v.t = "string" /\ v.s = "")

\* C8: a successful registration of a known subject keeps the stored name when
\* the display name sent is empty or missing and stores the name sent
\* otherwise; who is the name stored after the operation.
C8_NamePreserved ==
  [][(IsRegistered(resp') /\ resp'.n # resp.n) =>
       LET id == IdOf(resp'.req)
           sent == NameSent(resp'.req)
       IN /\ resp'.who = registry'[id].name
          /\ id \in DOMAIN registry =>
               registry'[id].name = IF Blank(sent) THEN registry[id].name ELSE sent.s
    ]_vars

\* a known subject registers with a blank name and is answered with its old one
C8_Witness ==
  /\ IsRegistered(resp)
  /\ Blank(NameSent(resp.req))
  /\ resp.who \in {"Rex", "Max"}

----------------------------------------------------------------------------
(* SpecUpsert: registrations of two subjects in three different seconds,    *)
(* one of them with a region that cannot be converted to a string: its      *)
(* handler writes the record and then answers 500                           *)

UpsertBodies ==
  {Body(Str("a"), Str("Rex"), Num(FloorSec(clock)), NoTargets),
   Body(Str("a"), Str(""), Num(FloorSec(clock)), NoTargets),
   Body(Str("b"), Str("Max"), Num(FloorSec(clock)), NoTargets),
   [Body(Str("a"), Str("Rex"), Num(FloorSec(clock)), NoTargets) EXCEPT !.region = BadObject]}

UpsertSend ==
  CanSend(MaxUpsertReqs) /\
  \E b \in UpsertBodies : Arrive(Req(Direct, "POST /api/register", "header", JsonText(b, "min")))

TickUpsert == \E t \in {StartClock + 1, StartClock + WindowMs + 1} : AdvanceTo(t)

NextUpsert == UpsertSend \/ Respond \/ TickUpsert

SpecUpsert == Init /\ [][NextUpsert]_vars

\* C23: a record enters the registry with first_seen = last_seen = the server
\* second of the step, the rank the classification lookup returns for the id
\* and the default affiliation; a successful registration of an id without
\* record creates one; no step changes the rank or the affiliation of a
\* record.
C23_UpsertClassification ==
  [][/\ \A id \in (DOMAIN registry') \ (DOMAIN registry) :
          /\ registry'[id].first_seen = FloorSec(clock)
          /\ registry'[id].last_seen = FloorSec(clock)
          /\ registry'[id].rank = lookupRankFor(id)
          /\ registry'[id].mc = DEFAULT_MC
     /\ (IsRegistered(resp') /\ resp'.n # resp.n) => IdOf(resp'.req) \in DOMAIN registry'
     /\ \A id \in DOMAIN registry :
          /\ id \in DOMAIN registry'
          /\ registry'[id].rank = registry[id].rank
          /\ registry'[id].mc = registry[id].mc
    ]_vars

\* two subjects are on record and the one registered last had been registered
\* in an earlier second: it still has its rank and affiliation
C23_Witness ==
  /\ IsRegistered(resp)
  /\ Cardinality(DOMAIN registry) = 2
  /\ LET rec == registry[IdOf(resp.req)]
     IN /\ rec.first_seen < rec.last_seen
        /\ rec.last_seen = FloorSec(resp.at)
        /\ rec.rank = DEFAULT_RANK
        /\ rec.mc = DEFAULT_MC

\* C28: every record of the in-memory registry has first_seen <= last_seen
\* (the clock of the model never goes back).
C28_SeenOrdered ==
  \A id \in DOMAIN registry : registry[id].first_seen <= registry[id].last_seen

\* one record was refreshed in a later second than it was created in, and
\* another was created after that
C28_Witness ==
  \E a, b \in DOMAIN registry :
    /\ registry[a].first_seen < registry[a].last_seen
    /\ registry[b].first_seen = registry[b].last_seen
    /\ registry[b].first_seen > registry[a].last_seen

----------------------------------------------------------------------------
(* SpecScan: bulk lookup of short and long lists over a registry of two       *)
(* known subjects                                                            *)

ScanIds == <<Str("a"), Str("zz"), Str("b")>>
Cycle(n) == [i \in 1..n |-> ScanIds[((i - 1) % Len(ScanIds)) + 1]]

ScanTargets ==
  {Targets(Cycle(n)) : n \in {20, 21, 50, 51}}
  \cup {Targets(<<Str("b"), Str("b"), Str("zz"), Str("a")>>), NoTargets}

ScanSeed ==
  CanSend(MaxScanReqs) /\
  \E seed \in {<<Str("a"), Str("Rex")>>, <<Str("b"), Str("")>>} :
    Arrive(Req(Direct, "POST /api/register", "header",
               RegBody(seed[1], seed[2], Num(FloorSec(clock)))))

ScanLookup ==
  CanSend(MaxScanReqs) /\
  \E tg \in ScanTargets :
    Arrive(Req(Direct, "POST /api/scan", "header", ScanBody(Num(FloorSec(clock)), tg)))

\* the first millisecond after the first limiter window
TickScan == AdvanceTo(StartClock + WindowMs + 1)

NextScan == ScanSeed \/ ScanLookup \/ Respond \/ TickScan

SpecScan == Init /\ [][NextScan]_vars

IsScanned(r) == r.status = 200 /\ r.req.route = "POST /api/scan"
ItemsOf(req) ==
  LET tg == JsonParse(req.raw).targets IN IF tg.isArray THEN tg.items ELSE <<>>

\* C9: the outcomes of a scan answer the ids in input order, each carrying its
\* id: a known id with its stored name, affiliation and rank, an unknown id
\* with the sentinel '(unknown)' three times and age_days 0.
C9_OrderedOutcomes ==
  IsScanned(resp) =>
    /\ Len(resp.results) <= Len(ItemsOf(resp.req))
    /\ \A i \in DOMAIN resp.results :
         LET id == ItemsOf(resp.req)[i]
             out == resp.results[i]
         IN /\ out.id = id
            /\ id.s \in DOMAIN registry =>
                 /\ out.who = registry[id.s].name
                 /\ out.mc = registry[id.s].mc
                 /\ out.rank = registry[id.s].rank
            /\ id.s \notin DOMAIN registry =>
                 /\ out.who = "(unknown)" /\ out.mc = "(unknown)"
                 /\ out.rank = "(unknown)" /\ out.age_days = 0

\* a scan of known and unknown ids, the two known ones being different records
C9_Witness ==
  /\ IsScanned(resp)
  /\ Len(resp.results) >= 3
  /\ DOMAIN registry = {"a", "b"}
  /\ registry["a"].name # registry["b"].name
  /\ \E i, j \in DOMAIN resp.results :
       resp.results[i].who = "(unknown)" /\ resp.results[j].who = "Rex"

C10_Cap == IF variant = 1 THEN 20 ELSE 50

\* C10: a scan of n ids is answered 200 with the outcomes of the first
\* min(n, CAP) ids, CAP being 20 in the first build and 50 in the second; a
\* targets value that is no array gives an empty list.
C10_Capped ==
  (resp.req.route = "POST /api/scan" /\ "op" \in Range(resp.checks)) =>
    LET tg == JsonParse(resp.req.raw).targets
        n == IF tg.isArray THEN Len(tg.items) ELSE 0
    IN /\ resp.status = 200
       /\ Len(resp.results) = Min(n, C10_Cap)
       /\ \A i \in 1..Min(n, C10_Cap) : resp.results[i].id = tg.items[i]

\* a list longer than the cap is cut to the cap
C10_Witness ==
  /\ IsScanned(resp)
  /\ Len(ItemsOf(resp.req)) > C10_Cap
  /\ Len(resp.results) = C10_Cap

----------------------------------------------------------------------------
(* SpecAge: registrations and lookups of one subject over two days          *)

AgeRegister ==
  CanSend(MaxAgeReqs) /\
  Arrive(Req(Direct, "POST /api/register", "header",
             RegBody(Str("a"), Str("Rex"), Num(FloorSec(clock)))))

AgeLookup ==
  CanSend(MaxAgeReqs) /\
  Arrive(Req(Direct, "POST /api/scan", "header",
             ScanBody(Num(FloorSec(clock)), Targets(<<Str("a"), Str("zz")>>))))

\* the next second; the last second of the day that began at the start, and
\* the first millisecond and the last of the second that completes the day;
\* two days after the start
AgeInstants ==
  {StartClock + 1,
   StartClock + DaySec * 1000 - 1000, StartClock + DaySec * 1000 - 999, StartClock + DaySec * 1000,
   StartClock + 2 * DaySec * 1000}

TickAge == \E t \in AgeInstants : AdvanceTo(t)

NextAge == AgeRegister \/ AgeLookup \/ Respond \/ TickAge

SpecAge == Init /\ [][NextAge]_vars

\* C24: the age a scan reports for a known subject is the whole number of
\* days, rounded down, between the subject's first_seen and the server second
\* of the scan; it is never negative, and 0 within the first day.
C24_AgeDays ==
  IsScanned(resp) =>
    \A i \in DOMAIN resp.results :
      LET id == ItemsOf(resp.req)[i]
          out == resp.results[i]
      IN id.s \in DOMAIN registry =>
           LET lived == FloorSec(resp.at) - registry[id.s].first_seen
           IN /\ out.age_days = lived \div DaySec
              /\ out.age_days >= 0
              /\ lived < DaySec => out.age_days = 0

\* a subject registered again one day after it was first seen is, another
\* day later, two days old
C24_Witness ==
  /\ IsScanned(resp)
  /\ resp.results[1].age_days = 2
  /\ registry["a"].last_seen = registry["a"].first_seen + DaySec

----------------------------------------------------------------------------
(* SpecRead: lookups that are served and lookups that are refused at each  *)
(* check or fail, over a registry that holds a record                      *)

ReadSeed ==
  CanSend(MaxReadReqs) /\
  Arrive(Req(Direct, "POST /api/register", "header",
             RegBody(Str("a"), Str("Rex"), Num(FloorSec(clock)))))

\* a list of a known and an unknown id, a list with an id that cannot be
\* converted to a string, and a targets value that is no array
ReadTargets == {Targets(<<Str("a"), Str("zz")>>), Targets(<<Str("a"), BadObject>>), NoTargets}

ReadLookup ==
  CanSend(MaxReadReqs) /\
  \/ \E tg \in ReadTargets :
       Arrive(Req(Direct, "POST /api/scan", "header", ScanBody(Num(FloorSec(clock)), tg)))
  \/ \E kind \in {"none", "wrong"} :
       Arrive(Req(Direct, "POST /api/scan", kind,
                  ScanBody(Num(FloorSec(clock)), Targets(<<Str("a"), Str("zz")>>))))
  \/ Arrive(Req(Direct, "POST /api/scan", "header",
                ScanBody(Num(FloorSec(clock) - TS_DRIFT_SEC - 1), Targets(<<Str("a"), Str("zz")>>))))

TickRead == \E t \in {StartClock + 1, StartClock + WindowMs + 1} : AdvanceTo(t)

NextRead == ReadSeed \/ ReadLookup \/ Respond \/ TickRead

SpecRead == Init /\ [][NextRead]_vars

\* C27: a step in which a POST /api/scan request passes the limiter or is
\* answered, with 200 or with any refusal, leaves the registry as it was.
C27_ScanReadOnly ==
  [][(\/ nreq' = nreq + 1 /\ Newest'.route = "POST /api/scan"
      \/ resp'.n # resp.n /\ resp'.req.route = "POST /api/scan")
       => registry' = registry
    ]_vars

\* a known and an unknown id were looked up in a later second than the known
\* one registered: its record still carries the old last_seen and the
\* unknown id has no record
C27_Witness ==
  /\ IsScanned(resp)
  /\ Len(resp.results) = 2
  /\ DOMAIN registry = {"a"}
  /\ registry["a"].last_seen < FloorSec(resp.at)
  /\ resp.results[2].who = UNKNOWN

----------------------------------------------------------------------------
(* SpecFresh: the window guard as a function of server time, drift and claim *)

ProbeFresh ==
  /\ \E now \in Instants, drift \in (0..MaxDrift) \cup {TS_DRIFT_SEC} :
       \E off \in {-(drift + 1), -drift, 0, drift, drift + 1} :
         LET claim == Num(FloorSec(now) + off)
         IN probe' = [now |-> now, drift |-> drift, claim |-> claim,
                      fresh |-> FreshAt(ToNumber(claim), FloorSec(now), drift)]
  /\ UNCHANGED <<variant, clock, nreq, hits, win, registry, inflight, resp, huds, up, clubs,
               members, calls, admits>>

SpecFresh == Init /\ [][ProbeFresh]_vars

\* C4: a claim equal to now, now + T or now - T is fresh, and a claim equal to
\* now + (T + 1) or now - (T + 1) is not.
C4_InclusiveBoundary ==
  probe # NoProbe =>
    LET off == probe.claim.n - FloorSec(probe.now)
    IN /\ off \in {0, probe.drift, -probe.drift} => probe.fresh
       /\ off \in {probe.drift + 1, -(probe.drift + 1)} => ~probe.fresh

\* a claim exactly one drift ahead of the server is fresh
C4_Witness ==
  /\ probe.drift > 0
  /\ probe.claim.n = FloorSec(probe.now) + probe.drift
  /\ probe.fresh

----------------------------------------------------------------------------
(* SpecSig: holders of the secret sign the exact bytes of their body, in   *)
(* two spellings of the same JSON value, and present the 8 digits as they  *)
(* are, in upper case, between blanks, or both, in the header or the query *)

SigStyles == {[upper |-> u, pad |-> p] : u \in BOOLEAN, p \in BOOLEAN}

\* the digits of sig as a client of the given style writes them
Presented(sig, style) ==
  Reshape(sig, [ShapeOf(sig) EXCEPT !.upper = style.upper, !.pad = style.pad])

SigBodies ==
  {<<route, JsonText(val, form)>> :
     route \in {"POST /api/register"}, val \in {Body(Str("a"), Str("Rex"), Num(StartS), NoTargets)},
     form \in {"min", "pretty"}}
  \cup {<<route, JsonText(val, form)>> :
     route \in {"POST /api/scan"},
     val \in {Body(Undef, Undef, Num(StartS), Targets(<<Str("a")>>))},
     form \in {"min", "pretty"}}

\* signed over the bytes sent, or (other = TRUE) over the other spelling of
\* the same value
SigReq(route, raw, carrier, style, other) ==
  LET signed == IF other THEN JsonText(raw.val, "other") ELSE raw
      sig == Presented(sigSHA1(SHARED_SECRET, signed), style)
  IN [Req(Direct, route, "none", raw) EXCEPT
        !.holds = TRUE,
        !.xsig = IF carrier = "header" THEN sig ELSE NoSig,
        !.qsig = IF carrier = "query" THEN sig ELSE NoSig]

SigReqs ==
  {SigReq(b[1], b[2], carrier, style, FALSE) :
     b \in SigBodies, carrier \in {"header", "query"}, style \in SigStyles}
  \cup {SigReq(b[1], b[2], "header", [upper |-> FALSE, pad |-> FALSE], TRUE) : b \in SigBodies}

SigSend == CanSend(MaxSigReqs) /\ \E req \in SigReqs : Arrive(req)

TickSig == AdvanceTo(StartClock + WindowMs + 1)

NextSig == SigSend \/ Respond \/ TickSig

SpecSig == Init /\ [][NextSig]_vars

\* the signature string a request presents: the header's, else the query's
SigShown(req) == IF req.xsig # NoSig THEN req.xsig ELSE req.qsig

\* s spells, in either case and with or without blanks around, the first 8
\* digits of the digest of secret + '|' + raw
SpellsSig(s, secret, raw) ==
  /\ s # NoSig
  /\ s[1] = secret
  /\ s[2] = raw
  /\ ShapeOf(s).len = 8

\* C11: a register or scan request whose presented signature is the first 8
\* digits of SHA1(secret + '|' + body) over the exact bytes received, in lower
\* or upper case and with or without whitespace around it, passes the
\* signature check, and with a timestamp that is fresh when the handler runs
\* it is answered 200.
C11_HeaderRoundTrip ==
  (IsPost(resp.req) /\ resp.status # 429
     /\ SpellsSig(SigShown(resp.req), SHARED_SECRET, resp.req.raw))
    => /\ resp.status # 401
       /\ "fresh" \in Range(resp.checks)
       /\ InWindow(resp.req, resp.at) => resp.status = 200

\* a signature sent in upper case between blanks in the query was accepted
C11_Witness ==
  /\ resp.status = 200
  /\ resp.req.xsig = NoSig
  /\ ShapeOf(resp.req.qsig).upper
  /\ ShapeOf(resp.req.qsig).pad
  /\ resp.req.route = "POST /api/register"

----------------------------------------------------------------------------
(* SpecVerify: verifySig as a function of the envelope, for each build of  *)
(* the persisted variant.  A client signs one text and the server receives *)
(* a payload that is that text, another spelling of it, or no text at all. *)

HudBuilds == {3, 4, 5}

InitHud == variant \in HudBuilds /\ Started /\ Unobserved

\* a subject without callback url, with one, and with one that holds a
\* backslash before its slash; each url in the ways JSON can write it
HudSpelled ==
  {<<HudData(Str("a"), Str("Rex"), Str("")), "none">>,
   <<HudData(Str("a"), Str("Rex"), Str("h/x")), "plain">>,
   <<HudData(Str("a"), Str("Rex"), Str("h/x")), "esc">>,
   <<HudData(Str("a"), Str("Rex"), Str("h\\/x")), "bsesc">>}

\* whitespace before, between and after the tokens
Layouts ==
  {<<<<>>, <<>>, <<>>>>, <<<<"SP">>, <<>>, <<>>>>, <<<<>>, <<"LF">>, <<>>>>,
   <<<<>>, <<"CR", "LF">>, <<>>>>, <<<<>>, <<>>, <<"LF">>>>,
   <<<<>>, <<>>, <<"CR", "LF">>>>, <<<<"SP">>, <<>>, <<"LF">>>>}

Junk(trail) == JsonText(JsNull, Spelling(<<>>, <<>>, trail, "none", FALSE))

PayloadTexts ==
  {JsonText(v[1], Spelling(l[1], l[2], l[3], v[2], TRUE)) : v \in HudSpelled, l \in Layouts}
  \cup {JsonText(JsNull, Compact("none")), Junk(<<>>), Junk(<<"LF">>)}

PayloadsSent ==
  {TextP(t) : t \in PayloadTexts}
  \cup {ObjP(v[1]) : v \in HudSpelled}
  \cup {OtherP(t) : t \in {"number", "null", "undefined"}}

\* the digest as the client writes it: all 40 digits, the same in upper case
\* between blanks, or the 8 digits of the header scheme
SigsOf(secret, text) ==
  {sha1(secret, text), Padded(ToUpperCase(sha1(secret, text))), sigSHA1(secret, text)}

NoVerdict == Verdict(FALSE, 0, "", JsNull, 0, 0)

Probed(body, signed, secret) ==
  probe' = [body |-> body, signed |-> signed, secret |-> secret, out |-> verifySig(body)]

\* one request per run: the verifier keeps no state between requests
ProbeVerify ==
  /\ probe = NoProbe
  /\ \/ \E p \in PayloadsSent, t \in PayloadTexts : \E sig \in SigsOf(SECRET, t) :
          Probed(Envelope(p, StrS(sig)), t, SECRET)
     \/ \E t \in PayloadTexts : \E sig \in SigsOf("guess", t) :
          Probed(Envelope(TextP(t), StrS(sig)), t, "guess")
     \/ \E p \in PayloadsSent, k \in {"number", "undefined"} :
          Probed(Envelope(p, OtherS(k)), NoText, "")
  /\ UNCHANGED <<variant, clock, nreq, hits, win, registry, inflight, resp, huds, up, clubs,
               members, calls, admits>>

SpecVerify == InitHud /\ [][ProbeVerify]_vars

IsVerifyProbe == "out" \in DOMAIN probe

\* s spells, in either case and with or without blanks around, all 40 digits
\* of the digest of secret + '|' + text
SpellsDigest(s, secret, text) ==
  /\ s # NoSig
  /\ s[1] = secret
  /\ s[2] = text
  /\ ShapeOf(s).len = 40

\* the payload string and the signature string of a well-typed envelope
SentText(body) == IF body.payload.t = "object" THEN Stringify(body.payload.val)
                  ELSE body.payload.text
SentSig(body) == body.sig.hex

\* C12: an envelope whose payload string P is a JSON text, with any
\* whitespace around it, and whose sig is the digest of secret + '|' + P over
\* exactly that string is accepted and the handler runs.
C12_ExactPayloadAccepted ==
  (/\ IsVerifyProbe
   /\ probe.body.payload.t = "string"
   /\ probe.body.sig.t = "string"
   /\ Parses(probe.body.payload.text)
   /\ SentSig(probe.body) = sha1(SECRET, probe.body.payload.text))
    => probe.out.next

\* the candidate list as the claim enumerates it: raw, canonical
\* re-serialization (when the payload parses), escaped-slash normalization,
\* CRLF to LF, LF to CRLF, payload + LF, payload + CRLF
C13_Enumerated(P) ==
  <<P>> \o (IF Parses(P) THEN <<Canonical(P)>> ELSE <<>>)
    \o <<UnescapeSlashes(P), CrlfToLfText(P), LfToCrlfText(P),
         AppendWs(P, <<"LF">>), AppendWs(P, <<"CR", "LF">>)>>

\* C13: the compat verifier (server.cjs) calls the handler only if the
\* presented signature is the digest of secret + '|' + c for a candidate c of
\* the enumerated list, c being the first one in the list's order that
\* matches, and then req.data is the JSON parse of c; when no candidate
\* matches it answers 401 and does not call the handler.
C13_CompatSound ==
  (IsVerifyProbe /\ variant = 3 /\ WellTyped(probe.body)) =>
    LET L == C13_Enumerated(SentText(probe.body))
        hit == {k \in 1..Len(L) : SpellsDigest(SentSig(probe.body), SECRET, L[k])}
    IN  /\ probe.out.next =>
             \E k \in hit :
                /\ \A j \in hit : k <= j
                /\ probe.out.matched = k
                /\ Parses(L[k])
                /\ probe.out.data = JsonParse(L[k])
        /\ hit = {} => (~probe.out.next /\ probe.out.status = 401)

\* the signature is over the payload with its escaped slashes unescaped: the
\* third candidate matches and the data handed on is the parse of that
\* candidate, not of the payload received
C13_Witness ==
  /\ IsVerifyProbe
  /\ variant = 3
  /\ probe.out.next
  /\ probe.out.matched = 3
  /\ probe.body.payload.t = "string"
  /\ probe.out.data # JsonParse(probe.body.payload.text)

\* C14: the 8-digit signature the header scheme accepts for secret S and
\* bytes B is accepted by the envelope verifier for payload B.
C14_SameFormat ==
  (/\ IsVerifyProbe
   /\ probe.body.payload.t = "string"
   /\ probe.body.sig.t = "string"
   /\ Parses(probe.body.payload.text)
   /\ SentSig(probe.body) = sigSHA1(SECRET, probe.body.payload.text))
    => probe.out.next

\* the text whose digest the verifier compares first
C20_FirstHashed(P) == IF variant = 3 THEN P ELSE TrimText(P)

\* C20: a payload that is missing or neither a string nor an object, or a
\* sig that is not a string, is answered 400 'Bad payload' before any digest
\* is computed and the handler does not run; a payload that is not JSON and
\* whose digest matches is answered 400 'Bad JSON' and the handler does not
\* run.
C20_ValidationFirst ==
  IsVerifyProbe =>
    /\ (probe.body.payload.t \notin {"string", "object"} \/ probe.body.sig.t # "string")
         => /\ ~probe.out.next
            /\ probe.out.status = 400
            /\ probe.out.text = "Bad payload"
            /\ probe.out.hashed = 0
    /\ (/\ WellTyped(probe.body)
        /\ ~Parses(SentText(probe.body))
        /\ SpellsDigest(SentSig(probe.body), SECRET, C20_FirstHashed(SentText(probe.body))))
         => /\ ~probe.out.next
            /\ probe.out.status = 400
            /\ probe.out.text = "Bad JSON"

\* a correctly signed payload that is not JSON was answered 'Bad JSON'
C20_Witness ==
  /\ IsVerifyProbe
  /\ probe.out.status = 400
  /\ probe.out.text = "Bad JSON"
  /\ probe.out.matched = 1

----------------------------------------------------------------------------
(* SpecInput: correctly signed requests whose fields are not what the      *)
(* handlers expect                                                         *)

\* timestamp claims of every JSON type: the server's second as a number, as a
\* string of digits and plus one half; half a second inside and outside the
\* drift; true, null, a word, none, and an object that cannot be converted
OddClaims ==
  {Num(StartS), Digits(StartS), Half(StartS), Half(StartS + TS_DRIFT_SEC - 1),
   Half(StartS + TS_DRIFT_SEC), Bool(TRUE), JsNull, Str("soon"), Undef, BadObject}

\* subject identifiers: a string, none, null, numbers, an object
OddIds == {Str("a"), Undef, JsNull, Num(0), Num(5), BadObject}

OddBodies ==
  {Body(Str("a"), Str("Rex"), ts, NoTargets) : ts \in OddClaims}
  \cup {Body(id, Str("Rex"), Num(StartS), NoTargets) : id \in OddIds}
  \cup {[Body(Str("a"), Str("Rex"), Num(StartS), NoTargets) EXCEPT !.region = BadObject]}

OddLookups ==
  {Body(Undef, Undef, ts, Targets(<<Str("a")>>)) : ts \in {Digits(StartS), Half(StartS)}}
  \cup {Body(Undef, Undef, Num(StartS), Targets(<<Str("a"), BadObject>>))}

InputReqs ==
  {Req(Direct, "POST /api/register", "header", JsonText(b, "min")) : b \in OddBodies}
  \cup {Req(Direct, "POST /api/scan", "header", JsonText(b, "min")) : b \in OddLookups}

InputSend == CanSend(MaxInputReqs) /\ \E req \in InputReqs : Arrive(req)

NextInput == InputSend \/ Respond

SpecInput == Init /\ [][NextInput]_vars

\* the request answered last was correctly signed
SignedRight(req) == SpellsSig(SigShown(req), SHARED_SECRET, req.raw)

\* v is a JSON number without fractional part
IsInteger(v) == v.t = "number" /\ v.s # "half"

\* C15: a correctly signed request whose timestamp claim is missing,
\* non-numeric or not an integer number is answered 400 and does not reach the
\* business operation.
C15_IntegerClaimsOnly ==
  (/\ IsPost(resp.req)
   /\ resp.status # 429
   /\ SignedRight(resp.req)
   /\ ~IsInteger(JsonParse(resp.req.raw).timestamp))
    => (resp.status = 400 /\ "op" \notin Range(resp.checks))

\* C16: a correctly signed, fresh register request whose avatar_id is missing
\* or not a string is answered with a 400-class response, and the registry
\* never holds a record keyed by the empty string.
C16_MalformedRejected ==
  /\ "" \notin DOMAIN registry
  /\ (/\ resp.req.route = "POST /api/register"
      /\ resp.status # 429
      /\ SignedRight(resp.req)
      /\ InWindow(resp.req, resp.at)
      /\ JsonParse(resp.req.raw).avatar_id.t # "string")
       => resp.status \in 400..499

----------------------------------------------------------------------------
(* SpecHud: the persisted server with a store that may fail at any call    *)

HudReq(route, body, xauth, qkey) ==
  [n |-> 0, route |-> route, body |-> body, xauth |-> xauth, qkey |-> qkey]

Signed(secret, text) == Envelope(TextP(text), StrS(sha1(secret, text)))

HudSubjects ==
  {HudData(Str("a"), Str("Rex"), Str("h/x")), HudData(Str("b"), Str("Bo"), Undef)}

HudWrites ==
  {HudReq(route, Signed(secret, Stringify(d)), "", "") :
     route \in {"POST /v1/hud/register", "POST /v1/hud/heartbeat"},
     secret \in {SECRET, "guess"}, d \in HudSubjects}
  \cup {HudReq("POST /v1/hud/register", Signed(SECRET, NoText), "", "")}

\* the secret, the secret in lower case, the secret followed by a blank, a
\* guess, and no key, in the header and in the query
HudKeys == {SECRET, "changeme_secret", "CHANGEME_SECRET ", "guess", ""}

HudReads ==
  {HudReq("GET /v1/hud/endpoints", Envelope(OtherP("undefined"), OtherS("undefined")), x, q) :
     x \in HudKeys, q \in {SECRET, "guess", ""}}

HudWriteCall == nreq < MaxHudReqs /\ \E req \in HudWrites : HudCall(req)

HudReadCall == nreq < MaxHudReqs /\ \E req \in HudReads : HudCall(req)

NextHud == HudWriteCall \/ HudReadCall

SpecHud == InitHud /\ [][NextHud]_vars

\* C17: every request that reaches a handler is answered, with a 500-class
\* response when the handler throws or the store fails, and the process keeps
\* running.
C17_AlwaysAnswered ==
  /\ up
  /\ resp.n > 0 => resp.status # 0
  /\ "failed" \in Range(resp.checks) => resp.status \in 500..599

\* C19: the listing is returned only to a request whose x-auth header or key
\* query parameter is exactly the secret; a request with neither gets 401 and
\* no subject data; the list returned holds exactly the stored subjects with a
\* non-empty url, one pair of avatar id and url each.
C19_Listing ==
  resp.req.route = "GET /v1/hud/endpoints" =>
    /\ resp.status = 200 =>
         /\ resp.req.xauth = SECRET \/ resp.req.qkey = SECRET
         /\ resp.results =
              {<<id.s, huds[id].url.s>> : id \in {i \in DOMAIN huds : huds[i].url # Str("")}}
    /\ (resp.req.xauth # SECRET /\ resp.req.qkey # SECRET)
         => (resp.status = 401 /\ resp.results = <<>>)

\* the key came in the query, two subjects are stored and only the one with a
\* callback url is listed
C19_Witness ==
  /\ resp.req.route = "GET /v1/hud/endpoints"
  /\ resp.status = 200
  /\ resp.req.xauth = ""
  /\ Cardinality(DOMAIN huds) = 2
  /\ resp.results = {<<"a", "h/x">>}

----------------------------------------------------------------------------
(* SpecHudName: HUDs of the persisted variant that register again, with    *)
(* their display name, with an empty one and with none                     *)

HudNamed ==
  {HudData(Str("a"), name, Str("h/x")) : name \in {Str("Rex"), Str("Max"), Str(""), Undef}}
  \cup {HudData(Str("b"), Str("Bo"), Str(""))}

HudNameCall ==
  /\ nreq < MaxHudReqs
  /\ \E d \in HudNamed, secret \in {SECRET, "guess"} :
       HudCall(HudReq("POST /v1/hud/register", Signed(secret, Stringify(d)), "", ""))

SpecHudName == InitHud /\ [][HudNameCall]_vars

\* C25: a POST /v1/hud/register answered 200 for a subject that is already
\* stored, with an empty or missing display name, leaves the stored display
\* name as it was.
C25_PersistedNameKept ==
  [][(resp'.n # resp.n /\ resp'.status = 200 /\ resp'.req.route = "POST /v1/hud/register") =>
       LET d == JsonParse(resp'.req.body.payload.text)
       IN (d.avatar_id \in DOMAIN huds /\ Blank(d.avatar_name)) =>
            huds'[d.avatar_id].avatar_name = huds[d.avatar_id].avatar_name
    ]_vars

----------------------------------------------------------------------------
(* SpecConc: several requests in flight at once.  The limiter middleware   *)
(* and each route handler are synchronous code, so each runs to completion *)
(* in one turn of the event loop; between the two, while the body is read, *)
(* other requests arrive and other handlers run, in any order.             *)

ConcReqs ==
  {Req(src, "POST /api/register", "header",
       RegBody(Str("a"), name, Num(FloorSec(clock)))) :
     src \in {Direct, Proxied}, name \in {Str("Rex"), Str("Max")}}

ConcSend ==
  /\ nreq < MaxConcReqs
  /\ Cardinality(inflight) < MaxPending
  /\ \E req \in ConcReqs : Arrive(req)

TickConc == \E t \in {StartClock + 1, StartClock + WindowMs + 1} : AdvanceTo(t)

NextConc == ConcSend \/ Respond \/ TickConc

SpecConc == Init /\ [][NextConc]_vars

\* every bucket counts the requests its source has sent since the bucket's
\* window began
C18_Counted ==
  \A key \in DOMAIN hits :
    /\ key \in DOMAIN win
    /\ hits[key].last = win[key].start
    /\ hits[key].count = win[key].seen

\* C18: in every interleaving of requests in flight, after each step every
\* bucket's count is the number of requests of its source the limiter has
\* processed since the bucket's window start, and a subject's last_seen is
\* the server time of the successful registration processed last: a step
\* that serves a registration of the subject sets it, no other step changes it.
C18_NoLostUpdate ==
  [][/\ C18_Counted'
     /\ \A id \in DOMAIN registry' :
          IF IsRegistered(resp') /\ resp'.n # resp.n /\ IdOf(resp'.req) = id
          THEN registry'[id].last_seen = FloorSec(clock)
          ELSE id \in DOMAIN registry /\ registry'[id].last_seen = registry[id].last_seen
    ]_vars

\* the second request of a source was served while its first is still in
\* flight, and its third has just been refused and counted
C18_Witness ==
  /\ resp.status = 429
  /\ \E r \in inflight : r.n = 1 /\ SourceKey(r) = SourceKey(resp.req)
  /\ "a" \in DOMAIN registry
  /\ hits[SourceKey(resp.req)].count > RATE_PER_MIN

----------------------------------------------------------------------------
(* SpecBudget: one source sends requests that need no signature, requests  *)
(* that fail the signature or the freshness check, and valid registrations *)

BudgetReqs ==
  {Req(Direct, route, "none", JsonText(EmptyBody, "")) : route \in {"GET /", "GET /api/register"}}
  \cup {Req(Direct, "POST /api/register", kind,
             RegBody(Str("a"), Str("Rex"), Num(FloorSec(clock)))) :
           kind \in {"none", "wrong", "header"}}
  \cup {Req(Direct, "POST /api/register", "header",
             RegBody(Str("a"), Str("Rex"), Num(FloorSec(clock) - TS_DRIFT_SEC - 1)))}

BudgetSend == CanSend(MaxBudgetReqs) /\ \E req \in BudgetReqs : Arrive(req)

TickBudget == \E t \in {StartClock + 1, StartClock + WindowMs + 1} : AdvanceTo(t)

NextBudget == BudgetSend \/ Respond \/ TickBudget

SpecBudget == Init /\ [][NextBudget]_vars

\* C29: the limiter counts a request of any method and route, signed or not,
\* valid or not, before anything else looks at it; once a source has sent
\* `limit` requests in its window, its next request in the window is
\* answered 429 by the limiter alone, also when it is validly signed and
\* fresh.
C29_LimiterFirst ==
  [][nreq' = nreq + 1 =>
       LET key == SourceKey(Newest')
       IN /\ key \in DOMAIN hits'
          /\ hits'[key].count = CountBefore(key, clock) + 1
          /\ CountBefore(key, clock) >= RATE_PER_MIN =>
               /\ resp'.n = nreq'
               /\ resp'.status = 429
               /\ resp'.checks = <<"rate">>
               /\ Newest' \notin inflight'
               /\ registry' = registry
    ]_vars

\* a validly signed, fresh registration is refused with 429 after `limit`
\* requests of its source, all answered and none of them a registration
\* that was served
C29_Witness ==
  /\ resp.status = 429
  /\ resp.n = nreq
  /\ SignedRight(resp.req)
  /\ InWindow(resp.req, resp.at)
  /\ win[SourceKey(resp.req)].seen = RATE_PER_MIN + 1
  /\ inflight = {}
  /\ registry = EmptyMap

----------------------------------------------------------------------------
(* SpecClub: founders create clubs, one of them more than one, while       *)
(* earlier creations are still waiting for the store                       *)

ClubReqs ==
  {HudReq("POST /v1/club/create",
          Signed(secret, Stringify(ClubData(Str(who[1]), Str("MC"), Str(who[2])))), "", "") :
     who \in {<<"Owls", "f">>, <<"Rats", "f">>, <<"Bats", "g">>}, secret \in {SECRET, "guess"}}

ClubCall == nreq < MaxClubReqs /\ \E req \in ClubReqs : ClubCreate(req)

ClubStep == \E c \in calls : ClubUpdate(c) \/ ClubRespond(c) \/ ClubFail(c)

NextClub == ClubCall \/ ClubStep

SpecClub == InitHud /\ [][NextClub]_vars

\* in the members collection m, the record of id says Prez of club c
PrezOf(m, id, c) ==
  /\ id \in DOMAIN m
  /\ m[id].club_id = c
  /\ m[id].rank = "Prez"

\* C30: in the step in which a POST /v1/club/create request is answered with
\* club_id c, the member record of its founder has club_id = c and rank
\* 'Prez', and every club in the clubs collection has its founder recorded as
\* 'Prez' of it.
C30_ClubAtomic ==
  [][(resp'.n # resp.n /\ resp'.status = 200 /\ resp'.req.route = "POST /v1/club/create") =>
       /\ LET founder == JsonParse(resp'.req.body.payload.text).founder_id
              c == resp'.results[1]
          IN PrezOf(members', founder, c)
       /\ \A club \in clubs' : PrezOf(members', club.founder_id, club.club_id)
    ]_vars

====
